---- MODULE Spec2Model ----
(***************************************************************************)
(* EchoBreeze Embeddable Color Picker (ebecp-color-picker.js).             *)
(*                                                                         *)
(* The module-level state of ColorPickerModule, its event handlers and its *)
(* colour conversions.  JavaScript numbers are modelled as exact rationals *)
(* [n, d] (d > 0, lowest terms) extended with NaN ([0,0]), +Infinity       *)
(* ([1,0]) and -Infinity ([-1,0]); `undefined` is the value Undef.  Strings *)
(* that the code parses are sequences of one-character strings.            *)
(*                                                                         *)
(* Exact arithmetic agrees with the code's double-precision arithmetic on  *)
(* every input drawn below; where a product lands within rounding error of *)
(* a half, Math.round of the double may differ from the exact value by one *)
(* channel step, so the inputs are chosen away from such points.           *)
(***************************************************************************)
EXTENDS Integers, Sequences, FiniteSets, TLC

(***************************************************************************)
(* Numbers                                                                 *)
(***************************************************************************)
Abs(x) == IF x < 0 THEN -x ELSE x
Sign(x) == IF x > 0 THEN 1 ELSE IF x < 0 THEN -1 ELSE 0

RECURSIVE GCD(_, _)
GCD(a, b) == IF b = 0 THEN a ELSE GCD(b, a % b)

NaN == [n |-> 0, d |-> 0]
\* the value of a property that an object does not have
Undef == [n |-> 0, d |-> -1]

Reduce(n, d, g) == [n |-> n \div g, d |-> d \div g]

\* the number n/d; 0/0 is NaN, x/0 is +Infinity or -Infinity
Q(n, d) ==
    IF d = 0 THEN [n |-> Sign(n), d |-> 0]
    ELSE IF d < 0 THEN Reduce(-n, -d, GCD(Abs(n), Abs(d)))
    ELSE Reduce(n, d, GCD(Abs(n), Abs(d)))

I(k) == [n |-> k, d |-> 1]

IsUndef(x) == x.d < 0
IsNaN(x) == x.d = 0 /\ x.n = 0
IsFinite(x) == x.d > 0

Neg(x) == [n |-> -x.n, d |-> x.d]

Add(x, y) ==
    IF x.d = 0 /\ y.d = 0 THEN (IF x.n = y.n THEN x ELSE NaN)
    ELSE Q(x.n * y.d + y.n * x.d, x.d * y.d)

Sub(x, y) == Add(x, Neg(y))

Mul(x, y) == Q(x.n * y.n, x.d * y.d)

\* x / y; signed zeros are not distinguished (x / 0 is +Infinity for x > 0)
Div(x, y) ==
    IF x.d = 0 /\ y.d > 0 THEN (IF y.n < 0 THEN Neg(x) ELSE x)
    ELSE Q(x.n * y.d, x.d * y.n)

\* comparisons: false whenever an operand is NaN
Lt(x, y) ==
    /\ ~IsNaN(x)
    /\ ~IsNaN(y)
    /\ IF x.d = 0 /\ y.d = 0 THEN x.n < y.n ELSE x.n * y.d < y.n * x.d
Gt(x, y) == Lt(y, x)
Le(x, y) == ~IsNaN(x) /\ (x = y \/ Lt(x, y))
\* x === y on numbers
StrictEq(x, y) == x = y /\ ~IsNaN(x)

\* Math.max / Math.min: NaN if any argument is NaN
Max2(x, y) == IF IsNaN(x) \/ IsNaN(y) THEN NaN ELSE IF Lt(x, y) THEN y ELSE x
Min2(x, y) == IF IsNaN(x) \/ IsNaN(y) THEN NaN ELSE IF Lt(y, x) THEN y ELSE x
Max3(x, y, z) == Max2(Max2(x, y), z)
Min3(x, y, z) == Min2(Min2(x, y), z)

\* floor of a finite number
Floor(x) == x.n \div x.d

\* Math.round: the nearest integer, halves rounded up
Round(x) == IF ~IsFinite(x) THEN x ELSE I((2 * x.n + x.d) \div (2 * x.d))

\* x % 1 (the remainder has the sign of the dividend)
Mod1(x) ==
    IF ~IsFinite(x) THEN NaN
    ELSE IF x.n >= 0 THEN Q(x.n % x.d, x.d)
    ELSE Q(-((-x.n) % x.d), x.d)

InUnit(x) == Le(I(0), x) /\ Le(x, I(1))

(***************************************************************************)
(* Strings: sequences of one-character strings                             *)
(***************************************************************************)
DecDigits == <<"0", "1", "2", "3", "4", "5", "6", "7", "8", "9">>
HexLower == <<"a", "b", "c", "d", "e", "f">>
HexUpper == <<"A", "B", "C", "D", "E", "F">>

IsDigit(c) == \E i \in 1..Len(DecDigits) : DecDigits[i] = c
DigitVal(c) == (CHOOSE i \in 1..Len(DecDigits) : DecDigits[i] = c) - 1

\* [a-f\d] under the i flag
IsHexChar(c) ==
    \/ IsDigit(c)
    \/ \E i \in 1..Len(HexLower) : HexLower[i] = c \/ HexUpper[i] = c
HexVal(c) ==
    IF IsDigit(c) THEN DigitVal(c)
    ELSE 9 + (CHOOSE i \in 1..Len(HexLower) : HexLower[i] = c \/ HexUpper[i] = c)

\* parseInt(<two hex digits>, 16)
parseInt16(c1, c2) == 16 * HexVal(c1) + HexVal(c2)

startsWith(str, prefix) ==
    /\ Len(str) >= Len(prefix)
    /\ \A i \in 1..Len(prefix) : str[i] = prefix[i]

\* str.match(/[\d.]+/g): the maximal runs of digits and dots, left to right
IsNumChar(c) == IsDigit(c) \/ c = "."

RECURSIVE matchNumbers(_, _, _)
matchNumbers(str, i, cur) ==
    IF i > Len(str) THEN (IF cur = <<>> THEN <<>> ELSE <<cur>>)
    ELSE IF IsNumChar(str[i]) THEN matchNumbers(str, i + 1, Append(cur, str[i]))
    ELSE IF cur = <<>> THEN matchNumbers(str, i + 1, <<>>)
    ELSE <<cur>> \o matchNumbers(str, i + 1, <<>>)

RECURSIVE DigitsValue(_)
DigitsValue(ds) ==
    IF ds = <<>> THEN 0
    ELSE 10 * DigitsValue(SubSeq(ds, 1, Len(ds) - 1)) + DigitVal(ds[Len(ds)])

RECURSIVE Pow10(_)
Pow10(k) == IF k = 0 THEN 1 ELSE 10 * Pow10(k - 1)

\* unary plus on a run of digits and dots: "12" "0.5" ".5" "5." are numbers,
\* "." and anything with two dots is NaN
toNumber(tok) ==
    LET dots == {i \in 1..Len(tok) : tok[i] = "."}
    IN  IF Cardinality(dots) > 1 \/ Len(tok) = Cardinality(dots) THEN NaN
        ELSE IF dots = {} THEN I(DigitsValue(tok))
        ELSE LET p == CHOOSE i \in dots : TRUE
                 ip == SubSeq(tok, 1, p - 1)
                 fp == SubSeq(tok, p + 1, Len(tok))
             IN  Q(DigitsValue(ip) * Pow10(Len(fp)) + DigitsValue(fp), Pow10(Len(fp)))

(***************************************************************************)
(* Color Conversion Utilities                                              *)
(***************************************************************************)
C255 == I(255)

\* hue2rgb(p, q, t) once t is in range
hue2rgbT(p, q, t) ==
    IF Lt(t, Q(1, 6)) THEN Add(p, Mul(Mul(Sub(q, p), I(6)), t))
    ELSE IF Lt(t, Q(1, 2)) THEN q
    ELSE IF Lt(t, Q(2, 3)) THEN Add(p, Mul(Mul(Sub(q, p), Sub(Q(2, 3), t)), I(6)))
    ELSE p

\* if (t < 0) t += 1;  if (t > 1) t -= 1
wrapBelow(t) == IF Lt(t, I(0)) THEN Add(t, I(1)) ELSE t
wrapAbove(t) == IF Gt(t, I(1)) THEN Sub(t, I(1)) ELSE t

hue2rgb(p, q, t) == hue2rgbT(p, q, wrapAbove(wrapBelow(t)))

hslToRgbPQ(h, p, q) ==
    << Round(Mul(hue2rgb(p, q, Add(h, Q(1, 3))), C255)),
       Round(Mul(hue2rgb(p, q, h), C255)),
       Round(Mul(hue2rgb(p, q, Sub(h, Q(1, 3))), C255)) >>

hslToRgbQ(h, l, q) == hslToRgbPQ(h, Sub(Mul(I(2), l), q), q)

grey(v) == <<v, v, v>>

\* hslToRgb(h, s, l) = <<r, g, b>>
hslToRgb(h, s, l) ==
    IF StrictEq(s, I(0)) THEN grey(Round(Mul(l, C255)))
    ELSE hslToRgbQ(h, l, IF Lt(l, Q(1, 2)) THEN Mul(l, Add(I(1), s))
                         ELSE Sub(Add(l, s), Mul(l, s)))

\* a saturation that always divides by max + min
saturationOfDarkOnly(max, min) == Div(Sub(max, min), Add(max, min))

\* switch (max) { case r: ...; case g: ...; case b: ... } h /= 6; when no
\* case matches h stays undefined and undefined / 6 is NaN
hueOf(r, g, b, max, d) ==
    IF StrictEq(max, r)
    THEN Div(Add(Div(Sub(g, b), d), IF Lt(g, b) THEN I(6) ELSE I(0)), I(6))
    ELSE IF StrictEq(max, g) THEN Div(Add(Div(Sub(b, r), d), I(2)), I(6))
    ELSE IF StrictEq(max, b) THEN Div(Add(Div(Sub(r, g), d), I(4)), I(6))
    ELSE NaN

\* l = (max + min) / 2
lightnessOf(max, min) == Div(Add(max, min), I(2))

\* s = l > 0.5 ? d / (2 - max - min) : d / (max + min)
saturationOf(max, min) ==
    IF Gt(lightnessOf(max, min), Q(1, 2))
    THEN Div(Sub(max, min), Sub(Sub(I(2), max), min))
    ELSE Div(Sub(max, min), Add(max, min))

rgbToHslMaxMin(r, g, b, max, min) ==
    IF StrictEq(max, min) THEN <<I(0), I(0), lightnessOf(max, min)>>
    ELSE <<hueOf(r, g, b, max, Sub(max, min)), saturationOf(max, min),
           lightnessOf(max, min)>>

rgbToHslUnit(r, g, b) == rgbToHslMaxMin(r, g, b, Max3(r, g, b), Min3(r, g, b))

\* rgbToHsl(r, g, b) = <<h, s, l>>
rgbToHsl(r, g, b) == rgbToHslUnit(Div(r, C255), Div(g, C255), Div(b, C255))

\* hslToRgb(...rgbToHsl(r, g, b))
hslToRgbOf(hsl) == hslToRgb(hsl[1], hsl[2], hsl[3])

\* hexToRgb(hex) = [r, g, b, a]; the fallback is opaque black
OpaqueBlack == [r |-> I(0), g |-> I(0), b |-> I(0), a |-> I(1)]

\* the match of /^#?([a-f\d]{2})([a-f\d]{2})([a-f\d]{2})([a-f\d]{2})?$/i
\* on the digits after the optional #
hexDigitsToRgb(body) ==
    IF ~(Len(body) \in {6, 8} /\ \A i \in 1..Len(body) : IsHexChar(body[i]))
    THEN OpaqueBlack
    ELSE [r |-> I(parseInt16(body[1], body[2])),
          g |-> I(parseInt16(body[3], body[4])),
          b |-> I(parseInt16(body[5], body[6])),
          a |-> IF Len(body) = 8 THEN Div(I(parseInt16(body[7], body[8])), C255)
                ELSE I(1)]

hexToRgb(hex) ==
    hexDigitsToRgb(IF Len(hex) > 0 /\ hex[1] = "#" THEN SubSeq(hex, 2, Len(hex)) ELSE hex)

\* parseColor(colorString) = [r, g, b, a]; an input is [isString, chars]
Str(chars) == [isString |-> TRUE, chars |-> chars]
NotAString == [isString |-> FALSE, chars |-> <<>>]

\* parts = colorString.match(/[\d.]+/g) of an rgb-prefixed string
parseRgbParts(parts) ==
    IF Len(parts) >= 3
    THEN [r |-> toNumber(parts[1]), g |-> toNumber(parts[2]), b |-> toNumber(parts[3]),
          a |-> IF Len(parts) >= 4 THEN toNumber(parts[4]) ELSE I(1)]
    ELSE OpaqueBlack

parseColor(colorString) ==
    IF colorString.isString /\ startsWith(colorString.chars, <<"r", "g", "b">>)
    THEN parseRgbParts(matchNumbers(colorString.chars, 1, <<>>))
    ELSE IF colorString.isString /\ startsWith(colorString.chars, <<"#">>)
    THEN hexToRgb(colorString.chars)
    ELSE OpaqueBlack

\* { h, s, l, a } from [h, s, l] = rgbToHsl(r, g, b) and an alpha
hsla(hsl, a) == [h |-> hsl[1], s |-> hsl[2], l |-> hsl[3], a |-> a]

\* the destructuring in open() and setEditMode(): parse, convert, keep alpha
hslaOfRgba(rgba) == hsla(rgbToHsl(rgba.r, rgba.g, rgba.b), rgba.a)
hslaOf(colorString) == hslaOfRgba(parseColor(colorString))

(***************************************************************************)
(* The page: what the browser keeps for the elements the module touches    *)
(***************************************************************************)
\* elements.wheel.width and elements.lightnessSlider.width, as initialize()
\* sets them from the wrapper's clientWidth
canvasSize == 200

\* the background-color the stylesheet gives #ebecp-comparison-background
\* before the module has written an inline one (the CSS initial value)
stylesheetBackground == [r |-> 0, g |-> 0, b |-> 0, a |-> I(0)]

Clamp(k, lo, hi) == IF k < lo THEN lo ELSE IF k > hi THEN hi ELSE k

\* element.style.backgroundColor = `rgba(${r}, ${g}, ${b}, ${a})`: a
\* declaration with a non-finite component is invalid and is dropped; the
\* browser clamps the channels to 0..255 and the alpha to [0,1]
setBackgroundColor(old, r, g, b, a) ==
    IF ~(IsFinite(r) /\ IsFinite(g) /\ IsFinite(b) /\ IsFinite(a)) THEN old
    ELSE [r |-> Clamp(Floor(r), 0, 255), g |-> Clamp(Floor(g), 0, 255),
          b |-> Clamp(Floor(b), 0, 255),
          a |-> IF Lt(a, I(0)) THEN I(0) ELSE IF Gt(a, I(1)) THEN I(1) ELSE a]

RECURSIVE intChars(_)
intChars(k) ==
    IF k < 10 THEN <<DecDigits[k + 1]>>
    ELSE Append(intChars(k \div 10), DecDigits[(k % 10) + 1])

\* the serialization of an alpha value: at most two decimals
hundredthsChars(k) ==
    IF k >= 100 THEN <<"1">>
    ELSE IF k = 0 THEN <<"0">>
    ELSE IF k % 10 = 0 THEN <<"0", ".", DecDigits[(k \div 10) + 1]>>
    ELSE <<"0", ".", DecDigits[(k \div 10) + 1], DecDigits[(k % 10) + 1]>>

alphaChars(a) == hundredthsChars(Floor(Round(Mul(a, I(100)))))

\* window.getComputedStyle(el).backgroundColor: "rgb(r, g, b)" for an opaque
\* color, "rgba(r, g, b, a)" otherwise
channelChars(bg) ==
    intChars(bg.r) \o <<",", " ">> \o intChars(bg.g) \o <<",", " ">> \o intChars(bg.b)

getComputedBackgroundColor(bg) ==
    Str(IF bg.a = I(1) THEN <<"r", "g", "b", "(">> \o channelChars(bg) \o <<")">>
        ELSE <<"r", "g", "b", "a", "(">> \o channelChars(bg) \o <<",", " ">>
             \o alphaChars(bg.a) \o <<")">>)

\* Math.sqrt of a perfect square, Math.atan2 as a fraction of the full turn
\* for a point on an axis: the pointer positions of this model
sqrtInt(k) == CHOOSE m \in 0..k : m * m = k
atan2Turns(dy, dx) ==
    CASE dy = 0 /\ dx >= 0 -> I(0)
      [] dy > 0 /\ dx = 0 -> Q(1, 4)
      [] dy = 0 /\ dx < 0 -> Q(1, 2)
      [] dy < 0 /\ dx = 0 -> Q(-1, 4)

(***************************************************************************)
(* State Management                                                        *)
(***************************************************************************)
VARIABLES
    colorState,           \* { h, s, l, a }: the color being edited
    originalColorState,   \* snapshot of config.originalColor
    previousColorState,   \* snapshot of config.currentColor
    swatchStateCache,     \* the swatch color while the background is edited
    onConfirmCallback,    \* the stored callback (NoCallback: null)
    isDraggingWheel,
    isDraggingLightness,
    editMode,             \* "swatch" or "background"
    currentLocale,
    isOpen,               \* moduleElement has the class is-open
    comparisonBackground, \* the color painted on #ebecp-comparison-background
    wheelLightness,       \* the lightness the wheel bitmap was last drawn with
    ref,                  \* which object each snapshot variable refers to
    edPending,            \* EyeDropper.open() promises not yet settled
    calls,                \* how often each onConfirm has been invoked
    emitted,              \* <<argument>> if the latest step invoked onConfirm, else <<>>
    sess,                 \* how many times open() has run
    cfg,                  \* the config of the latest open()
    fresh,                \* no handler has run since the latest open()
    apiLocale,            \* the argument of the latest public setLocale()
    preSwitch,            \* in background mode: colorState when the mode was entered
    uiCount,              \* user events on the picker so far
    lastEvent,            \* the key, wheel-pointer, swatch-click or eyedropper event the latest step
                          \* handled, with its arguments; <<>> after any other step
    now,                  \* the time, in ms
    timers,               \* the due times of the timers that are set
    timeout,              \* debounce's variable: the timer set last (NoTimer: none)
    lastResize,           \* the time of the latest resize event (NoTimer: none)
    burst,                \* since the current burst of resize events began: how many
                          \* events it has (size) and how often initialize() ran (runs)
    resizes,              \* resize events so far
    fnArgs,               \* a conversion called on its own: <<name, arguments...>>
    fnResult              \* <<what it returned>>, <<>> before the call

progVars == <<colorState, originalColorState, previousColorState, swatchStateCache,
              onConfirmCallback, isDraggingWheel, isDraggingLightness, editMode,
              currentLocale, isOpen, comparisonBackground, wheelLightness, ref>>
envVars == <<edPending, calls, emitted, sess, cfg, fresh, apiLocale, preSwitch,
             uiCount, lastEvent>>
timerVars == <<now, timers, timeout, lastResize, burst, resizes>>
fnVars == <<fnArgs, fnResult>>
vars == <<progVars, envVars, timerVars, fnVars>>

NoCallback == 0
EmptyObject == [h |-> Undef, s |-> Undef, l |-> Undef, a |-> Undef]
Fields == {"h", "s", "l", "a"}

\* Object identity.  colorState always names the object created at line 42 and
\* is only ever mutated in place; each snapshot variable names an object of
\* its own unless an assignment made it share another variable's object.
snapshotNames == {"originalColorState", "previousColorState", "swatchStateCache"}
ownObject == [v \in snapshotNames |-> v]

\* owner = source: the variable shares the source's object
spreadShares(owner, source) == source

\* owner = { ...source } (or an object literal): a new object
spread(owner, source) == owner

\* Object.assign(target, source): the source's own properties overwrite
assign(target, source) ==
    [f \in Fields |-> IF IsUndef(source[f]) THEN target[f] ELSE source[f]]

\* the module-level state as one record, for the handlers below
Cur == [colorState |-> colorState, originalColorState |-> originalColorState,
        previousColorState |-> previousColorState,
        swatchStateCache |-> swatchStateCache,
        onConfirmCallback |-> onConfirmCallback,
        isDraggingWheel |-> isDraggingWheel,
        isDraggingLightness |-> isDraggingLightness,
        editMode |-> editMode, currentLocale |-> currentLocale, isOpen |-> isOpen,
        comparisonBackground |-> comparisonBackground,
        wheelLightness |-> wheelLightness, ref |-> ref]

Becomes(S) ==
    /\ colorState' = S.colorState
    /\ originalColorState' = S.originalColorState
    /\ previousColorState' = S.previousColorState
    /\ swatchStateCache' = S.swatchStateCache
    /\ onConfirmCallback' = S.onConfirmCallback
    /\ isDraggingWheel' = S.isDraggingWheel
    /\ isDraggingLightness' = S.isDraggingLightness
    /\ editMode' = S.editMode
    /\ currentLocale' = S.currentLocale
    /\ isOpen' = S.isOpen
    /\ comparisonBackground' = S.comparisonBackground
    /\ wheelLightness' = S.wheelLightness
    /\ ref' = S.ref

(***************************************************************************)
(* Internationalization                                                    *)
(***************************************************************************)
\* the keys of the locales table
localeKeys == {"en", "zh"}
\* property names every object literal inherits from Object.prototype
inheritedKeys == {"constructor", "toString", "valueOf", "hasOwnProperty"}
\* a config without lang
NoLang == "undefined"

\* locales[lang] is truthy
hasLocale(lang) == lang \in localeKeys \/ lang \in inheritedKeys

setLocale(S, lang) ==
    [S EXCEPT !.currentLocale = IF hasLocale(lang) THEN lang ELSE "en"]

(***************************************************************************)
(* Rendering and edit modes                                                *)
(***************************************************************************)
\* render(): the swatch cache follows the live color in swatch mode, the
\* comparison background is painted in background mode.  The preview, the
\* cursors, the alpha slider and the text inputs are written and never read.
\* render() that caches the live color in either edit mode
renderRgbAlwaysCaches(S, rgb) ==
    IF S.editMode = "swatch"
    THEN [S EXCEPT !.swatchStateCache = S.colorState,
                   !.ref.swatchStateCache = spread("swatchStateCache", "colorState")]
    ELSE [S EXCEPT !.swatchStateCache = S.colorState,
                   !.ref.swatchStateCache = spread("swatchStateCache", "colorState"),
                   !.comparisonBackground =
                      setBackgroundColor(@, rgb[1], rgb[2], rgb[3], S.colorState.a)]

renderRgb(S, rgb) ==
    IF S.editMode = "swatch"
    THEN [S EXCEPT !.swatchStateCache = S.colorState,
                   !.ref.swatchStateCache = spread("swatchStateCache", "colorState")]
    ELSE [S EXCEPT !.comparisonBackground =
             setBackgroundColor(@, rgb[1], rgb[2], rgb[3], S.colorState.a)]

render(S) == renderRgb(S, hslToRgb(S.colorState.h, S.colorState.s, S.colorState.l))

\* drawColorWheel(lightness): every pixel of the wheel is recomputed for the
\* given lightness, unless the canvas has no size
drawColorWheel(S, lightness) ==
    IF canvasSize = 0 THEN S ELSE [S EXCEPT !.wheelLightness = lightness]

\* drawColorWheel(colorState.l); render();
drawAndRender(S) == render(drawColorWheel(S, S.colorState.l))

\* elements.wheelWrapper.clientWidth: zero while the module is hidden
clientWidth(S) == IF S.isOpen THEN canvasSize ELSE 0

\* initialize(): size the canvases, repaint the wheel and the lightness bar
\* (the bar does not depend on the state), render
initialize(S) == IF clientWidth(S) = 0 THEN S ELSE drawAndRender(S)

\* setEditMode(mode): the live color is loaded from the computed style of the
\* comparison background, or from the swatch cache
setEditMode(S, mode) ==
    drawAndRender([S EXCEPT
              !.editMode = mode,
              !.colorState =
                 IF mode = "background"
                 THEN assign(@, hslaOf(getComputedBackgroundColor(S.comparisonBackground)))
                 ELSE assign(@, S.swatchStateCache)])

(***************************************************************************)
(* open / confirm / close                                                  *)
(***************************************************************************)
\* open(config); config = [originalColor, currentColor, onConfirm, lang]
\* open() that seeds the swatch cache from the original color
openParsedFromOriginal(S, currentHsla, originalHsla, onConfirm) ==
    initialize(setEditMode(
        [S EXCEPT !.colorState = assign(@, currentHsla),
                  !.previousColorState = currentHsla,
                  !.swatchStateCache = originalHsla,
                  !.originalColorState = originalHsla,
                  !.ref = [originalColorState |-> spread("originalColorState", "originalHsla"),
                           previousColorState |-> spread("previousColorState", "currentHsla"),
                           swatchStateCache |-> spread("swatchStateCache", "currentHsla")],
                  !.onConfirmCallback = onConfirm,
                  !.isOpen = TRUE],
        "swatch"))

\* open() after setLocale(), with currentHsla and the original color parsed
openParsed(S, currentHsla, originalHsla, onConfirm) ==
    initialize(setEditMode(
        [S EXCEPT !.colorState = assign(@, currentHsla),
                  !.previousColorState = currentHsla,
                  !.swatchStateCache = currentHsla,
                  !.originalColorState = originalHsla,
                  !.ref = [originalColorState |-> spread("originalColorState", "originalHsla"),
                           previousColorState |-> spread("previousColorState", "currentHsla"),
                           swatchStateCache |-> spread("swatchStateCache", "currentHsla")],
                  !.onConfirmCallback = onConfirm,
                  !.isOpen = TRUE],
        "swatch"))

open(S, config) ==
    openParsed(setLocale(S, IF config.lang = NoLang \/ config.lang = "" THEN "zh"
                            ELSE config.lang),
               hslaOf(config.currentColor), hslaOf(config.originalColor),
               config.onConfirm)

\* confirm() with the two edit modes exchanged
finalStateSwapped(S) ==
    IF S.editMode = "background" THEN S.swatchStateCache ELSE S.previousColorState

\* the value confirm() hands to the callback
finalState(S) ==
    IF S.editMode = "background" THEN S.previousColorState ELSE S.swatchStateCache

\* close() that forgets to clear the callback
closeKeepsCallback(S) == [S EXCEPT !.isOpen = FALSE]

close(S) == [S EXCEPT !.isOpen = FALSE, !.onConfirmCallback = NoCallback]

(***************************************************************************)
(* Event Handlers                                                          *)
(***************************************************************************)
\* a wheel move that never touches the lightness
wheelMoveToKeepsLightness(S, dx, dy, dist, radius) ==
    render([S EXCEPT !.colorState =
               [h |-> Mod1(Add(atan2Turns(dy, dx), I(1))),
                s |-> Q(IF dist > radius THEN radius ELSE dist, radius),
                l |-> @.l,
                a |-> @.a]])

\* handleWheelMove with dx, dy, dist = sqrt(dx*dx + dy*dy) and the radius
wheelMoveTo(S, dx, dy, dist, radius) ==
    render([S EXCEPT !.colorState =
               [h |-> Mod1(Add(atan2Turns(dy, dx), I(1))),
                s |-> Q(IF dist > radius THEN radius ELSE dist, radius),
                l |-> IF StrictEq(@.l, I(1)) \/ StrictEq(@.l, I(0)) THEN Q(1, 2) ELSE @.l,
                a |-> @.a]])

wheelMoveFrom(S, dx, dy, radius) ==
    wheelMoveTo(S, dx, dy, sqrtInt(dx * dx + dy * dy), radius)

\* handleWheelMove(coords); (x, y) is the pointer relative to the canvas
handleWheelMove(S, x, y) ==
    wheelMoveFrom(S, x - (canvasSize \div 2), y - (canvasSize \div 2), canvasSize \div 2)

\* handleLightnessMove(coords); x is the pointer relative to the slider
handleLightnessMove(S, x) ==
    drawAndRender([S EXCEPT !.colorState.l = Q(Clamp(x, 0, canvasSize), canvasSize)])

\* a reset that does not look at the edit mode
originalSwatchClickAnyMode(S) ==
    drawAndRender([S EXCEPT !.colorState = assign(@, S.originalColorState)])

\* click on the original swatch: reset to the original color (swatch mode only)
originalSwatchClick(S) ==
    IF S.editMode = "swatch"
    THEN drawAndRender([S EXCEPT !.colorState = assign(@, S.originalColorState)])
    ELSE S

\* a restore click that stores the live color as the restore point
restoreClickOverwrites(S) ==
    IF S.editMode = "swatch"
    THEN render([S EXCEPT !.previousColorState = assign(@, S.colorState)])
    ELSE S

\* click on the restore button: back to the previous color (swatch mode only)
restoreClick(S) ==
    IF S.editMode = "swatch"
    THEN drawAndRender([S EXCEPT !.colorState = assign(@, S.previousColorState)])
    ELSE S

changeBgClick(S) ==
    setEditMode(S, IF S.editMode = "swatch" THEN "background" ELSE "swatch")

\* an alpha handler that stores the value without render()
alphaInputNoRender(S, a) == [S EXCEPT !.colorState.a = a]

\* input on the alpha slider; a is parseFloat(e.target.value)
alphaInput(S, a) == render([S EXCEPT !.colorState.a = a])

keyStep(shiftKey) == IF shiftKey THEN Q(5, 100) ELSE Q(1, 100)

\* a hue step that is not reduced modulo 1
wheelKeyStateNoWrap(c, key, step) ==
    CASE key = "ArrowLeft" -> [c EXCEPT !.h = Sub(@, step)]
      [] key = "ArrowRight" -> [c EXCEPT !.h = Add(@, step)]
      [] key = "ArrowUp" -> [c EXCEPT !.s = Min2(I(1), Add(@, step))]
      [] key = "ArrowDown" -> [c EXCEPT !.s = Max2(I(0), Sub(@, step))]

\* the switch on e.key of the wheel's keydown handler
wheelKeyState(c, key, step) ==
    CASE key = "ArrowLeft" -> [c EXCEPT !.h = Mod1(Add(Sub(@, step), I(1)))]
      [] key = "ArrowRight" -> [c EXCEPT !.h = Mod1(Add(@, step))]
      [] key = "ArrowUp" -> [c EXCEPT !.s = Min2(I(1), Add(@, step))]
      [] key = "ArrowDown" -> [c EXCEPT !.s = Max2(I(0), Sub(@, step))]

wheelKeys == {"ArrowLeft", "ArrowRight", "ArrowUp", "ArrowDown"}

wheelKeydown(S, key, shiftKey) ==
    IF key \in wheelKeys
    THEN render([S EXCEPT !.colorState = wheelKeyState(@, key, keyStep(shiftKey))])
    ELSE S

\* the switch on e.key of the lightness slider's keydown handler
lightnessKeyState(c, key, step) ==
    CASE key = "ArrowLeft" -> [c EXCEPT !.l = Max2(I(0), Sub(@, step))]
      [] key = "ArrowRight" -> [c EXCEPT !.l = Min2(I(1), Add(@, step))]

lightnessKeys == {"ArrowLeft", "ArrowRight"}

lightnessKeydown(S, key, shiftKey) ==
    IF key \in lightnessKeys
    THEN drawAndRender([S EXCEPT !.colorState = lightnessKeyState(@, key, keyStep(shiftKey))])
    ELSE S

\* a resolution that keeps the alpha the live color had
eyedropperPickedKeepsAlpha(S, rgb) ==
    drawAndRender([S EXCEPT !.colorState =
                      assign(@, hsla(rgbToHsl(rgb.r, rgb.g, rgb.b), S.colorState.a))])

\* ed.open() resolved with res.sRGBHex = hex; drawColorWheel(l) is given the
\* l just assigned to colorState
eyedropperPicked(S, rgb) ==
    drawAndRender([S EXCEPT !.colorState = assign(@, hsla(rgbToHsl(rgb.r, rgb.g, rgb.b), I(1)))])

eyedropperResolved(S, hex) == eyedropperPicked(S, hexToRgb(hex))

\* the move handlers addDragListeners() puts on the document
wheelMoveHandler(S, p) ==
    IF S.isDraggingWheel THEN handleWheelMove(S, p[1], p[2]) ELSE S
lightnessMoveHandler(S, x) ==
    IF S.isDraggingLightness THEN handleLightnessMove(S, x) ELSE S

\* 'EyeDropper' in window
eyeDropperSupported == TRUE

(***************************************************************************)
(* Window Resize Listener                                                  *)
(***************************************************************************)
\* window.addEventListener('resize', debounce(initialize, 150))
debounceWait == 150
NoTimer == -1

\* a debounce that sets a new timer without clearing the one before
debounceKeepsTimer(pending, id, t) == pending \cup {t + debounceWait}

\* the function debounce() returns, called at time t: clearTimeout(timeout);
\* timeout = setTimeout(..., wait).  A timer is known by its due time.
debounce(pending, id, t) == (pending \ {id}) \cup {t + debounceWait}

(***************************************************************************)
(* Inputs                                                                  *)
(***************************************************************************)
HexRed == Str(<<"#", "F", "F", "0", "0", "0", "0">>)
HexGreen == Str(<<"#", "0", "0", "F", "F", "0", "0">>)
RgbaBlueHalf == Str(<<"r", "g", "b", "a", "(", "0", ",", " ", "0", ",", " ",
                      "2", "5", "5", ",", " ", "0", ".", "5", ")">>)
RgbOver == Str(<<"r", "g", "b", "(", "3", "0", "0", ",", " ", "0", ",", " ", "0", ")">>)
SampledHex == <<"#", "0", "0", "0", "0", "f", "f">>
HexWhite == Str(<<"#", "F", "F", "F", "F", "F", "F">>)

\* <<originalColor, currentColor>> of the configs given to open()
Configs == {<<HexRed, HexGreen>>, <<RgbaBlueHalf, HexGreen>>, <<HexRed, RgbOver>>}
\* what open() derives from each color a config can carry
configHsla == [c \in {HexRed, HexGreen, RgbaBlueHalf, RgbOver} |-> hslaOf(c)]
\* pointer positions on the wheel canvas: level with the centre, to the left
\* of the wheel and outside it
WheelPoints == {<<-50, 100>>}
\* pointer positions on the lightness slider: the left end
LightnessXs == {0}
AlphaValues == {Q(1, 2)}
Keys == {"ArrowLeft"}

\* the color strings given to parseColor() on its own, each with whether it
\* is a well-formed color: "rgb(" or "rgba(" followed by up to four numbers
\* (one of them with two dots), "#" followed by five to eight characters
\* (hexadecimal or not), strings that are neither, and a non-string
ParseInputs ==
    LET tokens == {<<"0">>, <<"2", "5", "5">>, <<"1", ".", "2", ".", "3">>}
        lists == UNION {[1..k -> tokens] : k \in 0..4}
        join[ts \in lists] ==
            IF Len(ts) = 0 THEN <<>>
            ELSE IF Len(ts) = 1 THEN ts[1]
            ELSE join[SubSeq(ts, 1, Len(ts) - 1)] \o <<",", " ">> \o ts[Len(ts)]
        bodies == UNION {[1..k -> {"F", "g"}] : k \in 5..8}
    IN  {<<"parseColor", Str(pre \o join[ts] \o <<")">>),
           Len(ts) >= 3 /\ \A i \in 1..Len(ts) : Len(ts[i]) <= 3>> :
             pre \in {<<"r", "g", "b", "(">>, <<"r", "g", "b", "a", "(">>}, ts \in lists}
        \cup {<<"parseColor", Str(<<"#">> \o body),
                Len(body) \in {6, 8} /\ \A i \in 1..Len(body) : body[i] = "F">> :
                  body \in bodies}
        \cup {<<"parseColor", Str(<<"n", "o", "t", "-", "a", "-", "c", "o", "l", "o", "r">>), FALSE>>,
               <<"parseColor", Str(<<"r", "e", "d">>), FALSE>>,
               <<"parseColor", Str(<<>>), FALSE>>,
               <<"parseColor", NotAString, FALSE>>}

MaxOpens == 2
MaxPending == 1
MaxEvents == 3
\* resize events, the end of time and the granularity of the clock
MaxResizes == 3
MaxTime == 400
TickMs == 50
\* the distance between the sampled channel values
ChannelStep == 15

\* the channel values given to the RGB -> HSL -> RGB round trip
Channels == {k \in 0..255 : k % ChannelStep = 0 \/ k = 255}

(***************************************************************************)
(* The state machine                                                       *)
(***************************************************************************)
InitProgram ==
    /\ colorState = [h |-> I(0), s |-> I(1), l |-> Q(1, 2), a |-> I(1)]
    /\ originalColorState = EmptyObject
    /\ previousColorState = EmptyObject
    /\ swatchStateCache = EmptyObject
    /\ onConfirmCallback = NoCallback
    /\ isDraggingWheel = FALSE
    /\ isDraggingLightness = FALSE
    /\ editMode = "swatch"
    /\ currentLocale = "zh"
    /\ isOpen = FALSE
    /\ comparisonBackground = stylesheetBackground
    /\ wheelLightness = Undef
    /\ ref = ownObject
    /\ edPending = 0
    /\ calls = [i \in 1..(MaxOpens + 1) |-> 0]
    /\ emitted = <<>>
    /\ sess = 0
    /\ cfg = [originalColor |-> NotAString, currentColor |-> NotAString,
              onConfirm |-> NoCallback, lang |-> NoLang]
    /\ fresh = FALSE
    /\ apiLocale = NoLang
    /\ preSwitch = EmptyObject
    /\ uiCount = 0
    /\ lastEvent = <<>>
    /\ now = 0
    /\ timers = {}
    /\ timeout = NoTimer
    /\ lastResize = NoTimer
    /\ burst = [size |-> 0, runs |-> 0]
    /\ resizes = 0

Init ==
    /\ InitProgram
    /\ fnArgs = <<>>
    /\ fnResult = <<>>

\* what every step but open() and confirm() does to the bookkeeping
Step ==
    /\ fresh' = FALSE
    /\ emitted' = <<>>
    /\ preSwitch' = IF editMode' = "background" /\ editMode = "swatch" THEN colorState
                    ELSE IF editMode' = "background" THEN preSwitch
                    ELSE EmptyObject
    /\ UNCHANGED <<calls, sess, cfg, timerVars, fnVars>>

\* a handler of a user event on the picker ran: S is the state it leaves
Handled(S) ==
    /\ uiCount < MaxEvents
    /\ Becomes(S)
    /\ uiCount' = uiCount + 1
    /\ Step
    /\ UNCHANGED <<edPending, apiLocale>>

\* ColorPickerModule.setLocale(lang)
SetLocale(lang) ==
    /\ lastEvent' = <<>>
    /\ Becomes(setLocale(Cur, lang))
    /\ apiLocale' = lang
    /\ Step
    /\ UNCHANGED <<edPending, uiCount>>

\* ColorPickerModule.open(config); the callback of the k-th open() is k
Open(originalColor, currentColor, lang) ==
    /\ lastEvent' = <<>>
    /\ sess < MaxOpens
    /\ LET config == [originalColor |-> originalColor, currentColor |-> currentColor,
                      onConfirm |-> sess + 1, lang |-> lang]
       IN  /\ Becomes(open(Cur, config))
           /\ cfg' = config
    /\ sess' = sess + 1
    /\ fresh' = TRUE
    /\ emitted' = <<>>
    /\ preSwitch' = EmptyObject
    /\ UNCHANGED <<edPending, calls, apiLocale, uiCount, timerVars, fnVars>>

\* confirm(): the click on the overlay
Confirm ==
    /\ lastEvent' = <<>>
    /\ IF onConfirmCallback # NoCallback
       THEN /\ calls' = [calls EXCEPT ![onConfirmCallback] = @ + 1]
            /\ emitted' = <<finalState(Cur)>>
       ELSE /\ emitted' = <<>>
            /\ UNCHANGED calls
    /\ Becomes(close(Cur))
    /\ fresh' = FALSE
    /\ UNCHANGED <<edPending, sess, cfg, apiLocale, preSwitch, uiCount, timerVars,
                   fnVars>>

\* close()
Close ==
    /\ lastEvent' = <<>>
    /\ Becomes(close(Cur))
    /\ Step
    /\ UNCHANGED <<edPending, apiLocale, uiCount>>

\* mousedown / touchstart on the wheel
WheelDown(p) ==
    /\ lastEvent' = <<"wheelDown", p>>
    /\ isOpen
    /\ Handled(handleWheelMove([Cur EXCEPT !.isDraggingWheel = TRUE], p[1], p[2]))

\* mousedown / touchstart on the lightness slider
LightnessDown(x) ==
    /\ lastEvent' = <<>>
    /\ isOpen
    /\ Handled(handleLightnessMove([Cur EXCEPT !.isDraggingLightness = TRUE], x))

\* mousemove / touchmove on the document: both move handlers see the event;
\* the pointer is at p on the wheel canvas and at x on the slider
PointerMove(p, x) ==
    /\ lastEvent' = <<"pointerMove", p, x>>
    /\ isDraggingWheel \/ isDraggingLightness
    /\ Handled(lightnessMoveHandler(wheelMoveHandler(Cur, p), x))

\* mouseup / touchend on the document
PointerUp ==
    /\ lastEvent' = <<>>
    /\ isDraggingWheel \/ isDraggingLightness
    /\ Becomes([Cur EXCEPT !.isDraggingWheel = FALSE, !.isDraggingLightness = FALSE])
    /\ Step
    /\ UNCHANGED <<edPending, apiLocale, uiCount>>

AlphaInput(a) ==
    /\ lastEvent' = <<>>
    /\ isOpen
    /\ Handled(alphaInput(Cur, a))

WheelKey(key, shiftKey) ==
    /\ lastEvent' = <<"wheelKey", key, shiftKey>>
    /\ isOpen
    /\ Handled(wheelKeydown(Cur, key, shiftKey))

LightnessKey(key, shiftKey) ==
    /\ lastEvent' = <<"lightnessKey", key, shiftKey>>
    /\ isOpen
    /\ Handled(lightnessKeydown(Cur, key, shiftKey))

OriginalSwatchClick ==
    /\ lastEvent' = <<"originalSwatchClick">>
    /\ isOpen
    /\ Handled(originalSwatchClick(Cur))

RestoreClick ==
    /\ lastEvent' = <<"restoreClick">>
    /\ isOpen
    /\ Handled(restoreClick(Cur))

ChangeBgClick ==
    /\ lastEvent' = <<>>
    /\ isOpen
    /\ Handled(changeBgClick(Cur))

\* click on the eyedropper button: ed.open() returns a pending promise
EyedropperClick ==
    /\ lastEvent' = <<>>
    /\ isOpen
    /\ eyeDropperSupported
    /\ edPending < MaxPending
    /\ uiCount < MaxEvents
    /\ edPending' = edPending + 1
    /\ uiCount' = uiCount + 1
    /\ UNCHANGED <<progVars, apiLocale>>
    /\ Step

\* the promise resolves with a picked color
EyedropperResolve(hex) ==
    /\ lastEvent' = <<"eyedropperResolve", hex>>
    /\ edPending > 0
    /\ Becomes(eyedropperResolved(Cur, hex))
    /\ edPending' = edPending - 1
    /\ Step
    /\ UNCHANGED <<apiLocale, uiCount>>

\* the promise rejects (the user pressed Escape): only a console.log
EyedropperReject ==
    /\ lastEvent' = <<"eyedropperReject">>
    /\ edPending > 0
    /\ edPending' = edPending - 1
    /\ UNCHANGED <<progVars, apiLocale, uiCount>>
    /\ Step

\* a resize event on the window: the debounced initialize is called
Resize ==
    /\ resizes < MaxResizes
    /\ now + debounceWait <= MaxTime
    /\ \A t \in timers : now < t
    /\ timers' = debounce(timers, timeout, now)
    /\ timeout' = now + debounceWait
    /\ lastResize' = now
    /\ burst' = IF lastResize # NoTimer /\ now - lastResize < debounceWait
                THEN [burst EXCEPT !.size = @ + 1]
                ELSE [size |-> 1, runs |-> 0]
    /\ resizes' = resizes + 1
    /\ lastEvent' = <<"resize">>
    /\ fresh' = FALSE
    /\ emitted' = <<>>
    /\ UNCHANGED <<progVars, edPending, calls, sess, cfg, apiLocale, preSwitch,
                   uiCount, now, fnVars>>

\* a timer that is due runs its callback, initialize()
TimerFire(t) ==
    /\ t \in timers
    /\ now >= t
    /\ Becomes(initialize(Cur))
    /\ timers' = timers \ {t}
    /\ burst' = [burst EXCEPT !.runs = @ + 1]
    /\ lastEvent' = <<"timer">>
    /\ fresh' = FALSE
    /\ emitted' = <<>>
    /\ UNCHANGED <<edPending, calls, sess, cfg, apiLocale, preSwitch, uiCount,
                   now, timeout, lastResize, resizes, fnVars>>

\* time passes, up to the next due time: a due timer runs before any later
\* event is handled
Tick ==
    /\ now < MaxTime
    /\ \A t \in timers : now < t
    /\ now' = IF \E t \in timers : t < now + TickMs
              THEN CHOOSE t \in timers : \A u \in timers : t <= u
              ELSE now + TickMs
    /\ lastEvent' = <<>>
    /\ UNCHANGED <<progVars, edPending, calls, emitted, sess, cfg, fresh, apiLocale,
                   preSwitch, uiCount, timers, timeout, lastResize, burst, resizes,
                   fnVars>>

\* parseColor(colorString) called on its own
ParseColorCall ==
    /\ fnArgs[1] = "parseColor"
    /\ fnResult = <<>>
    /\ fnResult' = <<parseColor(fnArgs[2])>>
    /\ UNCHANGED <<progVars, envVars, timerVars, fnArgs>>

\* hslToRgb(...rgbToHsl(r, g, b))
RoundTrip ==
    /\ fnArgs[1] = "roundTrip"
    /\ fnResult = <<>>
    /\ fnResult' = <<hslToRgbOf(rgbToHsl(I(fnArgs[2]), I(fnArgs[3]), I(fnArgs[4])))>>
    /\ UNCHANGED <<progVars, envVars, timerVars, fnArgs>>

Next ==
    \/ \E c \in Configs : Open(c[1], c[2], NoLang)
    \/ Confirm
    \/ Close
    \/ \E p \in WheelPoints : WheelDown(p)
    \/ \E x \in LightnessXs : LightnessDown(x)
    \/ \E p \in WheelPoints, x \in LightnessXs : PointerMove(p, x)
    \/ PointerUp
    \/ \E a \in AlphaValues : AlphaInput(a)
    \/ \E key \in Keys : WheelKey(key, TRUE)
    \/ \E key \in Keys : LightnessKey(key, FALSE)
    \/ OriginalSwatchClick
    \/ RestoreClick
    \/ ChangeBgClick
    \/ EyedropperClick
    \/ EyedropperResolve(SampledHex)
    \/ EyedropperReject

Spec == Init /\ [][Next]_vars

\* the language API: setLocale() and open() with every kind of lang
LangInputs == {"en", "zh", "fr", "constructor"}

NextLocale ==
    \/ \E lang \in LangInputs : SetLocale(lang)
    \/ \E lang \in LangInputs \cup {NoLang} : Open(HexRed, HexGreen, lang)
    \/ Confirm
    \/ ChangeBgClick

SpecLocale == Init /\ [][NextLocale]_vars

\* the keyboard: every key either handler knows, one it does not, with and
\* without Shift, from red (h = 0, s = 1) and from white (s = 0, l = 1)
KeyInputs == wheelKeys \cup {"Enter"}

NextKeys ==
    \/ \E c \in {HexRed, HexWhite} : Open(HexRed, c, NoLang)
    \/ \E key \in KeyInputs, shiftKey \in BOOLEAN : WheelKey(key, shiftKey)
    \/ \E key \in KeyInputs, shiftKey \in BOOLEAN : LightnessKey(key, shiftKey)

SpecKeys == Init /\ [][NextKeys]_vars

\* the resize listener, on a picker whose lightness can be edited
NextResize ==
    \/ Open(HexRed, HexGreen, NoLang)
    \/ \E x \in LightnessXs : LightnessDown(x)
    \/ \E p \in WheelPoints : WheelDown(p)
    \/ Resize
    \/ \E t \in timers : TimerFire(t)
    \/ Tick

\* the conversions on their own, and open() with the color strings
InitFn ==
    /\ InitProgram
    /\ fnResult = <<>>
    /\ \/ fnArgs \in ParseInputs
       \/ fnArgs \in {<<"roundTrip", r, g, b>> : r \in Channels, g \in Channels, b \in Channels}

NextFn ==
    \/ ParseColorCall
    \/ RoundTrip
    \/ fnArgs[1] = "parseColor" /\ Open(HexRed, fnArgs[2], NoLang)

SpecFn == InitFn /\ [][NextFn]_vars

\* time passes and a due timer runs
SpecResize ==
    /\ Init
    /\ [][NextResize]_vars
    /\ WF_vars(Tick)
    /\ WF_vars(\E t \in timers : TimerFire(t))

\* the pointer: wheel positions inside the wheel, at its centre, on its rim
\* and outside it; slider positions at both ends, in between and beyond
WheelPointInputs == {<<150, 100>>, <<100, 100>>, <<100, 0>>, <<-50, 100>>, <<100, 300>>}
LightnessInputs == {0, 50, 200, 300}

NextPointer ==
    \/ \E c \in {HexWhite, RgbaBlueHalf} : Open(HexRed, c, NoLang)
    \/ \E p \in WheelPointInputs : WheelDown(p)
    \/ \E x \in LightnessInputs : LightnessDown(x)
    \/ \E p \in WheelPointInputs, x \in LightnessInputs : PointerMove(p, x)
    \/ PointerUp

SpecPointer == Init /\ [][NextPointer]_vars

C3_ConfirmPassesLiveColor ==
    [][ calls' # calls => emitted' = <<colorState>> ]_vars

\* C4: open(config) followed immediately by confirm() invokes config.onConfirm
\* exactly once with the HSL of config.currentColor and its alpha ("#00FF00"
\* gives h = 1/3, s = 1, l = 1/2, a = 1), whatever config.originalColor is.
C4_OpenThenConfirm ==
    [][ fresh /\ emitted' # emitted =>
          /\ calls' = [calls EXCEPT ![cfg.onConfirm] = 1]
          /\ emitted' = <<hslaOf(cfg.currentColor)>>
          /\ cfg.currentColor = HexGreen =>
                emitted' = <<[h |-> Q(1, 3), s |-> I(1), l |-> Q(1, 2), a |-> I(1)]>>
      ]_vars

\* C4 witness: no user event has happened at all, the config had a blue
\* original color and a green current color, and green was just confirmed.
C4_Witness ==
    /\ uiCount = 0
    /\ cfg.originalColor = RgbaBlueHalf
    /\ cfg.currentColor = HexGreen
    /\ calls[sess] = 1
    /\ emitted = <<[h |-> Q(1, 3), s |-> I(1), l |-> Q(1, 2), a |-> I(1)]>>

\* C5: after setLocale(L) with a supported L, an open() whose config omits
\* lang leaves the current locale equal to L.
C5_GlobalLocaleSurvivesOpen ==
    [][ sess' # sess /\ cfg'.lang = NoLang /\ apiLocale \in localeKeys =>
          currentLocale' = apiLocale ]_vars

\* C6: after any sequence of setLocale() and open() calls the current locale
\* is one of the languages of the locale table.
C6_LocaleInTable == currentLocale \in localeKeys

\* C7: whenever onConfirm is invoked its argument has all of h, s, l, a
\* defined and each within [0,1].
C7_ConfirmedStateNormalized ==
    emitted # <<>> =>
        \A f \in Fields : ~IsUndef(emitted[1][f]) /\ InUnit(emitted[1][f])

\* C8: open() overwrites the whole session: the live color, the snapshots, the
\* edit mode and the callback come from config alone, and the color loaded
\* when background mode is entered right after open() does not depend on
\* anything that happened before this open() (it is the page's own).
C8_OpenLeavesNoTrace ==
    [][ /\ sess' # sess =>
              /\ colorState' = hslaOf(cfg'.currentColor)
              /\ previousColorState' = hslaOf(cfg'.currentColor)
              /\ swatchStateCache' = hslaOf(cfg'.currentColor)
              /\ originalColorState' = hslaOf(cfg'.originalColor)
              /\ editMode' = "swatch"
              /\ onConfirmCallback' = cfg'.onConfirm
        /\ fresh /\ editMode' = "background" =>
              colorState' = hslaOf(getComputedBackgroundColor(stylesheetBackground))
      ]_vars

\* C9: while the edit mode is background no event changes swatchStateCache,
\* and switching back to swatch sets the live color to the swatch color held
\* just before background mode was entered.
C9_BackgroundEditsSpareSwatch ==
    [][ sess' = sess /\ editMode = "background" =>
          /\ swatchStateCache' = swatchStateCache
          /\ editMode' = "swatch" => colorState' = preSwitch
      ]_vars

\* C9 witness: in background mode the background has been edited away from
\* the swatch color, and the swatch cache still holds the color from before
\* the switch.
C9_Witness ==
    /\ sess = 1
    /\ editMode = "background"
    /\ comparisonBackground # stylesheetBackground
    /\ colorState # swatchStateCache
    /\ swatchStateCache = preSwitch

\* C10: open() sets originalColorState and previousColorState to the values
\* derived from config.originalColor and config.currentColor, and no step
\* other than an open() changes either of them.
C10_SnapshotsFixedUntilOpen ==
    [][ /\ sess' = sess => UNCHANGED <<originalColorState, previousColorState>>
        /\ sess' # sess =>
              /\ originalColorState' = configHsla[cfg'.originalColor]
              /\ previousColorState' = configHsla[cfg'.currentColor]
      ]_vars

\* C10 witness: a session was opened, edited away from its starting color,
\* restored or reset, and confirmed, with both snapshots as open() set them.
C10_Witness ==
    /\ sess = 1
    /\ uiCount >= 2
    /\ ~isOpen
    /\ calls[1] = 1
    /\ originalColorState = hslaOf(cfg.originalColor)
    /\ previousColorState = hslaOf(cfg.currentColor)
    /\ swatchStateCache # previousColorState

\* C11: in every state after an open(), whatever events followed, each of
\* colorState.h, s, l and a is defined, is a number and lies in [0,1].
C11_ColorStateInRange ==
    sess > 0 => \A f \in Fields : ~IsUndef(colorState[f]) /\ InUnit(colorState[f])

C14_SwatchCacheTracksLive ==
    sess > 0 /\ editMode = "swatch" => \A f \in Fields : swatchStateCache[f] = colorState[f]

\* C14 witness: the background was edited and the mode switched back to
\* swatch, where the cache and the live color agree again.
C14_Witness ==
    /\ sess = 1
    /\ isOpen
    /\ editMode = "swatch"
    /\ comparisonBackground # stylesheetBackground
    /\ uiCount = MaxEvents
    /\ swatchStateCache = colorState

\* C17: the click on the eyedropper button changes nothing by itself; a
\* rejected request leaves the whole module state as it was; a resolved one
\* sets the live color to the HSL of the sampled color ("#0000ff": h = 2/3,
\* s = 1, l = 1/2) with alpha 1 in the edit mode current at that moment
\* (cached in swatch mode, painted on the background otherwise); either way
\* the request is settled and no new one is started.
C17_EyedropperSettles ==
    [][ /\ edPending' > edPending => UNCHANGED progVars
        /\ lastEvent' = <<"eyedropperReject">> =>
              /\ UNCHANGED progVars
              /\ edPending' = edPending - 1
        /\ lastEvent' = <<"eyedropperResolve", SampledHex>> =>
              /\ colorState' = [h |-> Q(2, 3), s |-> I(1), l |-> Q(1, 2), a |-> I(1)]
              /\ editMode' = editMode
              /\ editMode = "swatch" => swatchStateCache' = colorState'
              /\ editMode = "background" =>
                    /\ swatchStateCache' = swatchStateCache
                    /\ comparisonBackground' = [r |-> 0, g |-> 0, b |-> 255, a |-> I(1)]
              /\ UNCHANGED <<originalColorState, previousColorState,
                             onConfirmCallback, isOpen>>
              /\ edPending' = edPending - 1
      ]_vars

\* C17 witness: a request made in swatch mode has resolved after the switch
\* to background mode, and the sampled blue went to the background.
C17_Witness ==
    /\ lastEvent = <<"eyedropperResolve", SampledHex>>
    /\ editMode = "background"
    /\ colorState = [h |-> Q(2, 3), s |-> I(1), l |-> Q(1, 2), a |-> I(1)]
    /\ swatchStateCache # colorState
    /\ edPending = 0

\* C20: after open(), whenever a handler has finished, the lightness the wheel
\* bitmap was last painted with equals colorState.l.
C20_WheelPaintedAtLiveLightness ==
    sess > 0 => wheelLightness = colorState.l

C16_WheelPointerLightnessReset ==
    [][ \A p \in WheelPointInputs :
          \/ lastEvent' = <<"wheelDown", p>>
          \/ /\ isDraggingWheel /\ ~isDraggingLightness
             /\ \E x \in LightnessInputs : lastEvent' = <<"pointerMove", p, x>>
          => /\ colorState.l \in {I(0), I(1)} => colorState'.l = Q(1, 2)
             /\ colorState.l \notin {I(0), I(1)} => colorState'.l = colorState.l
             /\ colorState'.a = colorState.a
             /\ (2 * p[1] - canvasSize) * (2 * p[1] - canvasSize)
                  + (2 * p[2] - canvasSize) * (2 * p[2] - canvasSize)
                  > canvasSize * canvasSize => colorState'.s = I(1)
             /\ Mul(Mul(colorState'.s, colorState'.s), I(canvasSize * canvasSize))
                  \in {I(canvasSize * canvasSize),
                       I((2 * p[1] - canvasSize) * (2 * p[1] - canvasSize)
                         + (2 * p[2] - canvasSize) * (2 * p[2] - canvasSize))}
             /\ InUnit(colorState'.s)
      ]_vars

\* C16 witness: the session opened on white (l = 1) and the first event, a
\* press inside the wheel at half the radius, has set l to 0.5.
C16_Witness ==
    /\ cfg.currentColor = HexWhite
    /\ uiCount = 1
    /\ lastEvent = <<"wheelDown", <<150, 100>>>>
    /\ colorState = [h |-> I(0), s |-> Q(1, 2), l |-> Q(1, 2), a |-> I(1)]

C12_MalformedParsesToBlack ==
    fnArgs # <<>> /\ fnArgs[1] = "parseColor" /\ ~fnArgs[3] =>
        /\ fnResult # <<>> => fnResult[1] = [r |-> I(0), g |-> I(0), b |-> I(0), a |-> I(1)]
        /\ sess > 0 => colorState = [h |-> I(0), s |-> I(0), l |-> I(0), a |-> I(1)]

\* C19: for integers r, g, b in 0..255, hslToRgb(rgbToHsl(r, g, b)) has three
\* integer channels in 0..255, each within 1 of the channel it came from.
C19_RgbHslRoundTrip ==
    fnArgs # <<>> /\ fnArgs[1] = "roundTrip" /\ fnResult # <<>> =>
        \A i \in 1..3 :
            /\ fnResult[1][i].d = 1
            /\ fnResult[1][i].n \in 0..255
            /\ fnResult[1][i].n - fnArgs[i + 1] \in {-1, 0, 1}

\* C19 witness: a light, unsaturated color (l > 0.5, three different
\* channels) has made the round trip.
C19_Witness ==
    /\ fnArgs = <<"roundTrip", 255, 150, 210>>
    /\ fnResult = << <<I(255), I(150), I(210)>> >>

\* C21: when an eyedropper request resolves before any event of the current
\* session has been handled (so the request was made in an earlier session)
\* and the session before the current one was ended by confirm(), the current
\* session's colorState and swatchStateCache, and so the value it would
\* confirm, stay as they were.
C21_EyedropperStaysInItsSession ==
    [][ /\ lastEvent' = <<"eyedropperResolve", SampledHex>>
        /\ fresh
        /\ sess >= 2
        /\ calls[sess - 1] = 1
        => /\ colorState' = colorState
           /\ swatchStateCache' = swatchStateCache
           /\ (IF editMode' = "background" THEN previousColorState' ELSE swatchStateCache')
                = (IF editMode = "background" THEN previousColorState ELSE swatchStateCache)
      ]_vars

\* C22: a click on the original swatch or on the restore button in swatch
\* mode sets colorState, and with it swatchStateCache, to originalColorState
\* or previousColorState; in background mode it changes neither of them, nor
\* the background color; the edit mode stays as it was either way.
C22_ResetRestoreOnlyInSwatchMode ==
    [][ /\ lastEvent' = <<"originalSwatchClick">> =>
              /\ editMode = "swatch" =>
                    colorState' = originalColorState /\ swatchStateCache' = originalColorState
              /\ editMode = "background" =>
                    UNCHANGED <<colorState, swatchStateCache, comparisonBackground>>
              /\ UNCHANGED <<editMode, originalColorState, previousColorState>>
        /\ lastEvent' = <<"restoreClick">> =>
              /\ editMode = "swatch" =>
                    colorState' = previousColorState /\ swatchStateCache' = previousColorState
              /\ editMode = "background" =>
                    UNCHANGED <<colorState, swatchStateCache, comparisonBackground>>
              /\ UNCHANGED <<editMode, originalColorState, previousColorState>>
      ]_vars

\* C22 witness: in background mode, with the background edited to a color
\* that is not the original one, a click on the original swatch did nothing.
C22_Witness ==
    /\ lastEvent = <<"originalSwatchClick">>
    /\ editMode = "background"
    /\ comparisonBackground # stylesheetBackground
    /\ colorState # originalColorState
    /\ swatchStateCache # colorState

====
